---------------------------- MODULE Spec2Model ----------------------------
(***************************************************************************)
(* Market metrics monitoring pipeline (order_book_server/market_metrics). *)
(*                                                                         *)
(*   HyperliquidClient   price-feed cache + background polling task        *)
(*   MetricsDatabase     per-symbol table provisioning + insert            *)
(*   MarketMetricsMonitor  startup and one sampling loop per market        *)
(*                                                                         *)
(* Strings whose characters matter (symbols, numeric strings of the feed)  *)
(* are sequences of one-character strings.  Option<T> is <<>> (None) or    *)
(* <<x>> (Some(x)).  Decimal is fixed point: an integer number of          *)
(* 1/DecScale units.  HashMap<String, V> is a function on its key set.     *)
(***************************************************************************)
EXTENDS Integers, Sequences, FiniteSets, TLC

----------------------------------------------------------------------------
(* Option<T> *)
None == <<>>
Some(x) == <<x>>
IsSome(o) == o # <<>>
Unwrap(o) == o[1]

(* HashMap<String, V> *)
EmptyMap == <<>>
MapInsert(map, k, v) ==
    [x \in (DOMAIN map) \cup {k} |-> IF x = k THEN v ELSE map[x]]
MapGet_ZeroOnMiss(map, k) ==
    IF k \in DOMAIN map THEN Some(map[k])
    ELSE Some([coin |-> k, mark_price |-> 0, oracle_price |-> 0, mid_price |-> 0,
               funding_rate_pct |-> 0, open_interest |-> 0, volume_24h |-> 0,
               premium |-> 0, impact_px_bid |-> None, impact_px_ask |-> None])
MapGet(map, k) == IF k \in DOMAIN map THEN Some(map[k]) ELSE None

----------------------------------------------------------------------------
(* rust_decimal::Decimal, fixed point with three decimal places *)
DecScale == 1000
DecZero == 0
DecFromInt(n) == n * DecScale
DecMul(a, b) == (a * b) \div DecScale
DecDiv(a, b) == (a * DecScale) \div b

DigitChars == <<"0", "1", "2", "3", "4", "5", "6", "7", "8", "9">>
IsDigit(c) == \E n \in DOMAIN DigitChars : DigitChars[n] = c
DigitVal(c) == (CHOOSE n \in DOMAIN DigitChars : DigitChars[n] = c) - 1

RECURSIVE DigitsToNat(_)
DigitsToNat(ds) ==
    IF ds = <<>> THEN 0
    ELSE DigitsToNat(SubSeq(ds, 1, Len(ds) - 1)) * 10 + DigitVal(ds[Len(ds)])

(* Decimal::from_str: optional sign, digits with at most one point, at    *)
(* least one digit.  Result is None on a parse error.                     *)
DecimalFromStr(s) ==
    LET signed == Len(s) > 0 /\ s[1] \in {"-", "+"}
        body   == IF signed THEN Tail(s) ELSE s
        dots   == {i \in DOMAIN body : body[i] = "."}
        digs   == (DOMAIN body) \ dots
        ok     == /\ Cardinality(dots) <= 1
                  /\ digs # {}
                  /\ \A i \in digs : IsDigit(body[i])
        point  == IF dots = {} THEN Len(body) + 1 ELSE CHOOSE i \in dots : TRUE
        int    == SubSeq(body, 1, point - 1)
        frac   == SubSeq(body, point + 1, Len(body))
        fd(i)  == IF i <= Len(frac) THEN DigitVal(frac[i]) ELSE 0
        mag    == DigitsToNat(int) * DecScale + fd(1) * 100 + fd(2) * 10 + fd(3)
    IN  IF ~ok THEN None
        ELSE Some(IF signed /\ s[1] = "-" THEN 0 - mag ELSE mag)

(* Result<Decimal>::unwrap_or_default / Option<Decimal>::unwrap_or_default *)
UnwrapOrDefault(o) == IF IsSome(o) THEN Unwrap(o) ELSE DecZero

----------------------------------------------------------------------------
(* str::to_lowercase on the alphabet the symbols use *)
UpperChars == <<"B", "T", "C", "E", "H">>
LowerChars == <<"b", "t", "c", "e", "h">>
LowerChar(c) ==
    IF \E i \in DOMAIN UpperChars : UpperChars[i] = c
    THEN LowerChars[CHOOSE i \in DOMAIN UpperChars : UpperChars[i] = c]
    ELSE c
ToLowercase(s) == [i \in DOMAIN s |-> LowerChar(s[i])]

BTC == <<"B", "T", "C">>
ETH == <<"E", "T", "H">>
btc == <<"b", "t", "c">>

----------------------------------------------------------------------------
(* serde_json::Value *)
JNull == [t |-> "null"]
JStr(s) == [t |-> "str", v |-> s]
JArr(items) == [t |-> "arr", v |-> items]
JObj(fields) == [t |-> "obj", v |-> fields]
IsArr(j) == j.t = "arr"
IsObj(j) == j.t = "obj"
IsStr(j) == j.t = "str"
HasKey(j, k) == IsObj(j) /\ k \in DOMAIN j.v

(* Value::as_array *)
AsArray(j) == IF IsArr(j) THEN Some(j.v) ELSE None
(* Value::get(&str): Some only for an object that has the key *)
JGet(j, k) == IF HasKey(j, k) THEN Some(j.v[k]) ELSE None


(* Result<T, E> *)
Ok(x) == [ok |-> TRUE, v |-> x]
Err(e) == [ok |-> FALSE, e |-> e]

----------------------------------------------------------------------------
(* hyperliquid_client.rs: deserialization of the two payload element types *)

(* serde_json::from_value::<AssetMeta>: an object with a string "name" *)
FromValueAssetMeta(j) ==
    IF HasKey(j, "name") /\ IsStr(j.v["name"])
    THEN Some([name |-> j.v["name"].v])
    ELSE None

RequiredCtxFields == {"markPx", "oraclePx", "funding", "openInterest", "dayNtlVlm"}

(* an Option<String> field: absent or null is None, a string is Some *)
OptStringOk(j, k) == ~HasKey(j, k) \/ j.v[k].t \in {"null", "str"}
OptString(j, k) ==
    IF HasKey(j, k) /\ IsStr(j.v[k]) THEN Some(j.v[k].v) ELSE None

(* an Option<Vec<String>> field *)
OptStringVecOk(j, k) ==
    \/ ~HasKey(j, k)
    \/ j.v[k].t = "null"
    \/ (IsArr(j.v[k]) /\ \A i \in DOMAIN j.v[k].v : IsStr(j.v[k].v[i]))
OptStringVec(j, k) ==
    IF HasKey(j, k) /\ IsArr(j.v[k])
    THEN Some([i \in DOMAIN j.v[k].v |-> j.v[k].v[i].v])
    ELSE None

(* serde_json::from_value::<AssetContext> (rename_all = "camelCase") *)
FromValueAssetContext(j) ==
    IF /\ IsObj(j)
       /\ \A k \in RequiredCtxFields : HasKey(j, k) /\ IsStr(j.v[k])
       /\ OptStringOk(j, "midPx")
       /\ OptStringOk(j, "premium")
       /\ OptStringVecOk(j, "impactPxs")
    THEN Some([mark_px       |-> j.v["markPx"].v,
               oracle_px     |-> j.v["oraclePx"].v,
               mid_px        |-> OptString(j, "midPx"),
               funding       |-> j.v["funding"].v,
               open_interest |-> j.v["openInterest"].v,
               day_ntl_vlm   |-> j.v["dayNtlVlm"].v,
               premium       |-> OptString(j, "premium"),
               impact_pxs    |-> OptStringVec(j, "impactPxs")])
    ELSE None

(* Option<String>.and_then(|s| Decimal::from_str(&s).ok()) *)
AndThenFromStr(o) == IF IsSome(o) THEN DecimalFromStr(Unwrap(o)) ELSE None

(* impact_pxs.as_ref().and_then(|v| v.get(i)).and_then(from_str), i 0-based *)
ImpactPx(o, i) ==
    IF IsSome(o) /\ i + 1 <= Len(Unwrap(o))
    THEN DecimalFromStr(Unwrap(o)[i + 1])
    ELSE None

(* the HyperliquidMarketData built for one (meta, ctx) pair *)
MakeMarketData(meta, ctx) ==
    [coin             |-> meta.name,
     mark_price       |-> UnwrapOrDefault(DecimalFromStr(ctx.mark_px)),
     oracle_price     |-> UnwrapOrDefault(DecimalFromStr(ctx.oracle_px)),
     mid_price        |-> UnwrapOrDefault(AndThenFromStr(ctx.mid_px)),
     funding_rate_pct |-> DecMul(UnwrapOrDefault(DecimalFromStr(ctx.funding)),
                                 DecFromInt(100)),
     open_interest    |-> DecMul(UnwrapOrDefault(DecimalFromStr(ctx.open_interest)),
                                 UnwrapOrDefault(DecimalFromStr(ctx.mark_px))),
     volume_24h       |-> UnwrapOrDefault(DecimalFromStr(ctx.day_ntl_vlm)),
     premium          |-> UnwrapOrDefault(AndThenFromStr(ctx.premium)),
     impact_px_bid    |-> ImpactPx(ctx.impact_pxs, 0),
     impact_px_ask    |-> ImpactPx(ctx.impact_pxs, 1)]

RECURSIVE ParseEntries_SkipBad(_, _, _, _)
ParseEntries_SkipBad(universe, asset_ctxs, i, map) ==
    IF i > Len(universe) \/ i > Len(asset_ctxs) THEN Ok(map)
    ELSE LET meta == FromValueAssetMeta(universe[i])
             ctx  == FromValueAssetContext(asset_ctxs[i])
         IN  IF ~IsSome(meta) \/ ~IsSome(ctx)
             THEN ParseEntries_SkipBad(universe, asset_ctxs, i + 1, map)
             ELSE ParseEntries_SkipBad(universe, asset_ctxs, i + 1,
                                       MapInsert(map, Unwrap(meta).name,
                                                 MakeMarketData(Unwrap(meta), Unwrap(ctx))))

(* the loop over universe.iter().enumerate(): i is 1-based here *)
(* the contexts paired from the end of the list instead of by index *)
RECURSIVE ParseEntries_FromEnd(_, _, _, _)
ParseEntries_FromEnd(universe, asset_ctxs, i, map) ==
    IF i > Len(universe) \/ i > Len(asset_ctxs) THEN Ok(map)
    ELSE LET meta == FromValueAssetMeta(universe[i])
             ctx  == FromValueAssetContext(asset_ctxs[Len(asset_ctxs) + 1 - i])
         IN  IF ~IsSome(meta) THEN Err("deserialize AssetMeta")
             ELSE IF ~IsSome(ctx) THEN Err("deserialize AssetContext")
             ELSE ParseEntries_FromEnd(universe, asset_ctxs, i + 1,
                                       MapInsert(map, Unwrap(meta).name,
                                                 MakeMarketData(Unwrap(meta), Unwrap(ctx))))

RECURSIVE ParseEntries(_, _, _, _)
ParseEntries(universe, asset_ctxs, i, map) ==
    IF i > Len(universe) \/ i > Len(asset_ctxs) THEN Ok(map)
    ELSE LET meta == FromValueAssetMeta(universe[i])
             ctx  == FromValueAssetContext(asset_ctxs[i])
         IN  IF ~IsSome(meta) THEN Err("deserialize AssetMeta")
             ELSE IF ~IsSome(ctx) THEN Err("deserialize AssetContext")
             ELSE ParseEntries(universe, asset_ctxs, i + 1,
                               MapInsert(map, Unwrap(meta).name,
                                         MakeMarketData(Unwrap(meta), Unwrap(ctx))))

(* the universe array: array[0]["universe"] when that key exists, else array[0] *)
ExtractUniverse(universe_obj) ==
    IF IsSome(JGet(universe_obj, "universe"))
    THEN AsArray(Unwrap(JGet(universe_obj, "universe")))
    ELSE AsArray(universe_obj)

(* fetch_and_cache_all_markets, from the decoded JSON value to the local   *)
(* market_data_map: Ok(map) or Err(message)                                *)
ParseResponse(data) ==
    IF ~IsSome(AsArray(data)) THEN Err("Expected array response")
    ELSE LET array == Unwrap(AsArray(data)) IN
         IF Len(array) # 2 THEN Err("Expected 2 elements in response")
         ELSE IF ~IsSome(ExtractUniverse(array[1])) THEN Err("Expected universe array")
         ELSE IF ~IsSome(AsArray(array[2])) THEN Err("Expected asset_ctxs array")
         ELSE ParseEntries(Unwrap(ExtractUniverse(array[1])),
                           Unwrap(AsArray(array[2])), 1, EmptyMap)

----------------------------------------------------------------------------
(* types.rs *)
MetricsFields ==
    {"mark_price", "oracle_price", "mid_price", "best_bid", "best_ask", "spread",
     "spread_pct", "funding_rate_pct", "open_interest", "volume_24h",
     "bid_depth_5pct", "ask_depth_5pct", "total_depth_5pct",
     "bid_depth_10pct", "ask_depth_10pct", "total_depth_10pct",
     "bid_depth_25pct", "ask_depth_25pct", "total_depth_25pct",
     "premium", "impact_px_bid", "impact_px_ask",
     "node_latency_ms", "websocket_latency_ms", "total_latency_ms"}

(* MarketMetrics::new, with the timestamp Utc::now() gave *)
MarketMetricsNew(coin, now) ==
    [coin |-> coin, timestamp |-> now,
     mark_price |-> None, oracle_price |-> None, mid_price |-> None,
     best_bid |-> None, best_ask |-> None, spread |-> None, spread_pct |-> None,
     funding_rate_pct |-> None, open_interest |-> None, volume_24h |-> None,
     bid_depth_5pct |-> None, ask_depth_5pct |-> None, total_depth_5pct |-> None,
     bid_depth_10pct |-> None, ask_depth_10pct |-> None, total_depth_10pct |-> None,
     bid_depth_25pct |-> None, ask_depth_25pct |-> None, total_depth_25pct |-> None,
     premium |-> None, impact_px_bid |-> None, impact_px_ask |-> None,
     node_latency_ms |-> None, websocket_latency_ms |-> None,
     total_latency_ms |-> None]

merge_hyperliquid_data_WithMid(self, data) ==
    [self EXCEPT !.mark_price       = Some(data.mark_price),
                 !.oracle_price     = Some(data.oracle_price),
                 !.mid_price        = Some(data.mid_price),
                 !.funding_rate_pct = Some(data.funding_rate_pct),
                 !.open_interest    = Some(data.open_interest),
                 !.volume_24h       = Some(data.volume_24h),
                 !.premium          = Some(data.premium),
                 !.impact_px_bid    = data.impact_px_bid,
                 !.impact_px_ask    = data.impact_px_ask]

merge_hyperliquid_data(self, data) ==
    [self EXCEPT !.mark_price       = Some(data.mark_price),
                 !.oracle_price     = Some(data.oracle_price),
                 !.funding_rate_pct = Some(data.funding_rate_pct),
                 !.open_interest    = Some(data.open_interest),
                 !.volume_24h       = Some(data.volume_24h),
                 !.premium          = Some(data.premium),
                 !.impact_px_bid    = data.impact_px_bid,
                 !.impact_px_ask    = data.impact_px_ask]

(* the fields merge_orderbook_data assigns *)
OrderbookFields ==
    {"best_bid", "best_ask", "mid_price", "spread", "spread_pct",
     "bid_depth_5pct", "ask_depth_5pct", "total_depth_5pct",
     "bid_depth_10pct", "ask_depth_10pct", "total_depth_10pct",
     "bid_depth_25pct", "ask_depth_25pct", "total_depth_25pct"}

merge_orderbook_data(self, data) ==
    [f \in DOMAIN self |-> IF f \in OrderbookFields THEN Some(data[f]) ELSE self[f]]

----------------------------------------------------------------------------
(* monitor.rs: calculate_liquidity_depth.  Levels are <<price, size>>.     *)
Percentages ==
    <<Unwrap(DecimalFromStr(<<"0", ".", "0", "5">>)),
      Unwrap(DecimalFromStr(<<"0", ".", "1", "0">>)),
      Unwrap(DecimalFromStr(<<"0", ".", "2", "5">>))>>

RECURSIVE SumNotional(_, _)
SumNotional(levels, keep) ==
    IF levels = <<>> THEN DecZero
    ELSE (IF keep[1] THEN DecMul(levels[1][1], levels[1][2]) ELSE DecZero)
         + SumNotional(Tail(levels), Tail(keep))

BidDepth_BelowThreshold(bids, mid_price, pct) ==
    LET bid_threshold == DecMul(mid_price, DecFromInt(1) - pct)
    IN  SumNotional(bids, [i \in DOMAIN bids |-> bids[i][1] <= bid_threshold])

BidDepth(bids, mid_price, pct) ==
    LET bid_threshold == DecMul(mid_price, DecFromInt(1) - pct)
    IN  SumNotional(bids, [i \in DOMAIN bids |-> bids[i][1] >= bid_threshold])

AskDepth_Exclusive(asks, mid_price, pct) ==
    LET ask_threshold == DecMul(mid_price, DecFromInt(1) + pct)
    IN  SumNotional(asks, [i \in DOMAIN asks |-> asks[i][1] < ask_threshold])

AskDepth(asks, mid_price, pct) ==
    LET ask_threshold == DecMul(mid_price, DecFromInt(1) + pct)
    IN  SumNotional(asks, [i \in DOMAIN asks |-> asks[i][1] <= ask_threshold])

calculate_liquidity_depth_MidOnEmpty(bids, asks, mid_price) ==
    IF bids = <<>> /\ asks = <<>>
    THEN <<mid_price, mid_price, mid_price, mid_price, mid_price, mid_price>>
    ELSE <<BidDepth(bids, mid_price, Percentages[1]), AskDepth(asks, mid_price, Percentages[1]),
           BidDepth(bids, mid_price, Percentages[2]), AskDepth(asks, mid_price, Percentages[2]),
           BidDepth(bids, mid_price, Percentages[3]), AskDepth(asks, mid_price, Percentages[3])>>

(* the 6-tuple (bid5, ask5, bid10, ask10, bid25, ask25) *)
calculate_liquidity_depth(bids, asks, mid_price) ==
    <<BidDepth(bids, mid_price, Percentages[1]), AskDepth(asks, mid_price, Percentages[1]),
      BidDepth(bids, mid_price, Percentages[2]), AskDepth(asks, mid_price, Percentages[2]),
      BidDepth(bids, mid_price, Percentages[3]), AskDepth(asks, mid_price, Percentages[3])>>

(* filter_map over a ladder: the levels whose price and size both parse *)
RECURSIVE ParsedLevels(_)
ParsedLevels(orders) ==
    IF orders = <<>> THEN <<>>
    ELSE LET px == DecimalFromStr(orders[1].limit_px)
             sz == DecimalFromStr(orders[1].sz)
         IN  (IF IsSome(px) /\ IsSome(sz) THEN <<<<Unwrap(px), Unwrap(sz)>>>> ELSE <<>>)
             \o ParsedLevels(Tail(orders))

(* the arithmetic of get_orderbook_metrics once both best prices parsed *)
MakeOrderBookMetrics(bids, asks, best_bid, best_ask) ==
    LET mid_price  == DecDiv(best_bid + best_ask, DecFromInt(2))
        spread     == best_ask - best_bid
        spread_pct == DecMul(DecDiv(spread, mid_price), DecFromInt(100))
        depths     == calculate_liquidity_depth(ParsedLevels(bids), ParsedLevels(asks),
                                                mid_price)
    IN  [best_bid |-> best_bid, best_ask |-> best_ask, mid_price |-> mid_price,
         spread |-> spread, spread_pct |-> spread_pct,
         total_bids |-> Len(bids), total_asks |-> Len(asks),
         bid_depth_5pct |-> depths[1], ask_depth_5pct |-> depths[2],
         total_depth_5pct |-> depths[1] + depths[2],
         bid_depth_10pct |-> depths[3], ask_depth_10pct |-> depths[4],
         total_depth_10pct |-> depths[3] + depths[4],
         bid_depth_25pct |-> depths[5], ask_depth_25pct |-> depths[6],
         total_depth_25pct |-> depths[5] + depths[6]]

(* get_orderbook_metrics on what compute_snapshot() returned.  A snapshot  *)
(* is None or Some(map coin -> <<bids, asks>>), an order is                *)
(* [limit_px, sz] as to_str() renders them.  The result is [kind, v]:      *)
(* "none" (None), "some" (Some(v)), or "panic": Decimal's `/` panics on a  *)
(* zero divisor, which spread / mid_price meets when mid_price is zero.    *)
ObNone == [kind |-> "none", v |-> None]
(* bids.is_empty() || asks.is_empty() for the coin's ladders of a snapshot *)
EmptySide(snapshot, coin) ==
    /\ IsSome(snapshot)
    /\ coin \in DOMAIN Unwrap(snapshot)
    /\ \/ Unwrap(snapshot)[coin][1] = <<>>
       \/ Unwrap(snapshot)[coin][2] = <<>>
get_orderbook_metrics_ZerosOnEmpty(snapshot, coin) ==
    IF EmptySide(snapshot, coin)
    THEN [kind |-> "some",
          v |-> Some([f \in OrderbookFields \cup {"total_bids", "total_asks"} |-> DecZero])]
    ELSE ObNone

get_orderbook_metrics(snapshot, coin) ==
    IF ~IsSome(snapshot) THEN ObNone
    ELSE IF coin \notin DOMAIN Unwrap(snapshot) THEN ObNone
    ELSE LET bids == Unwrap(snapshot)[coin][1]
             asks == Unwrap(snapshot)[coin][2]
         IN  IF bids = <<>> \/ asks = <<>> THEN ObNone
             ELSE LET best_bid == DecimalFromStr(bids[1].limit_px)
                      best_ask == DecimalFromStr(asks[1].limit_px)
                  IN  IF ~IsSome(best_bid) \/ ~IsSome(best_ask) THEN ObNone
                      ELSE IF DecDiv(Unwrap(best_bid) + Unwrap(best_ask), DecFromInt(2)) = DecZero
                           THEN [kind |-> "panic", v |-> None]
                      ELSE [kind |-> "some",
                            v |-> Some(MakeOrderBookMetrics(bids, asks, Unwrap(best_bid),
                                                            Unwrap(best_ask)))]

----------------------------------------------------------------------------
(* What the price-feed API can answer to one POST {"type":"metaAndAssetCtxs"} *)
S(n) == <<n>>
MetaObj(name) == JObj([name |-> JStr(name)])
CtxObj(mark, funding) ==
    JObj([markPx |-> JStr(mark), oraclePx |-> JStr(mark), midPx |-> JStr(mark),
          funding |-> JStr(funding), openInterest |-> JStr(S("2")),
          dayNtlVlm |-> JStr(S("7")), premium |-> JStr(S("0")),
          impactPxs |-> JArr(<<JStr(mark), JStr(mark)>>)])
(* no premium, no impact prices, null mid price *)
CtxSparse(mark, funding) ==
    JObj([markPx |-> JStr(mark), oraclePx |-> JStr(mark), midPx |-> JNull,
          funding |-> JStr(funding), openInterest |-> JStr(S("2")),
          dayNtlVlm |-> JStr(S("7"))])
(* required field markPx missing *)
CtxNoMark == JObj([oraclePx |-> JStr(S("1")), funding |-> JStr(S("1")),
                   openInterest |-> JStr(S("2")), dayNtlVlm |-> JStr(S("7"))])

BodyA == JArr(<<JObj([universe |-> JArr(<<MetaObj(BTC), MetaObj(ETH)>>)]),
                JArr(<<CtxObj(S("2"), S("1")), CtxObj(S("3"), S("1"))>>)>>)
(* bare universe array, one market, more contexts than markets *)
BodyB == JArr(<<JArr(<<MetaObj(BTC)>>),
                JArr(<<CtxSparse(<<"1", ".", "5">>, S("x")), CtxObj(S("3"), S("1"))>>)>>)
BodyBadElement == JArr(<<JObj([universe |-> JArr(<<MetaObj(BTC), MetaObj(ETH)>>)]),
                         JArr(<<CtxObj(S("4"), S("1")), CtxNoMark>>)>>)
(* more markets than contexts *)
BodyShortCtxs == JArr(<<JObj([universe |-> JArr(<<MetaObj(BTC), MetaObj(ETH)>>)]),
                        JArr(<<CtxSparse(<<"1", ".", "5">>, S("x"))>>)>>)
BodyNotArray == JObj([error |-> JStr(S("e"))])
BodyThree == JArr(<<JArr(<<>>), JArr(<<>>), JArr(<<>>)>>)
BodyBadUniverse == JArr(<<JObj([universe |-> JStr(S("u"))]), JArr(<<>>)>>)

(* send() failed: connection error or the 5 s timeout *)
TransportError == [kind |-> "error", status |-> 0, json |-> FALSE, value |-> JNull]
HttpJson(status, value) == [kind |-> "http", status |-> status, json |-> TRUE, value |-> value]
(* a body that is not JSON *)
HttpText(status) == [kind |-> "http", status |-> status, json |-> FALSE, value |-> JNull]

(* the answers the feed gives in this model; a call holds the index of its own *)
Responses ==
    <<TransportError, HttpJson(500, BodyA), HttpText(200),
      HttpJson(200, BodyA), HttpJson(200, BodyB), HttpJson(200, BodyBadElement),
      HttpJson(200, BodyNotArray), HttpJson(200, BodyThree),
      HttpJson(200, BodyBadUniverse), HttpJson(200, BodyShortCtxs)>>
NoResponse == 0

(* StatusCode::is_success *)
IsSuccess(status) == status >= 200 /\ status <= 299

Coins == {BTC, ETH}

(* MetricsConfig.target_markets *)
TargetMarkets == <<BTC, ETH>>
MarketIds == DOMAIN TargetMarkets

(* the symbols MetricsDatabase is called with when it is exercised alone *)
DbSymbols == {BTC, ETH, btc}

(* the timestamps Utc::now() returns are 0..MaxTime *)
MaxTime == 1

(* What compute_snapshot() can return *)
Order(px, sz) == [limit_px |-> px, sz |-> sz]
S3(a, b, c) == <<a, b, c>>
BookBids == <<Order(S3("1", "0", "0"), S("2")), Order(<<"9", "9">>, S("3"))>>
BookAsks == <<Order(S3("1", "0", "1"), S("1")), Order(S3("1", "0", "2"), S("4"))>>
Snapshots ==
    <<None,
      Some((BTC :> <<BookBids, BookAsks>>) @@ (ETH :> <<BookBids, <<>>>>)),
      Some((BTC :> <<<<Order(S("0"), S("1"))>>, <<Order(S("0"), S("1"))>>>>)),
      Some((BTC :> <<<<>>, BookAsks>>))>>

(* the answers of the feed: every one when the client is exercised alone,  *)
(* a transport failure or the one-market payload under the monitor         *)
FeedClient == DOMAIN Responses
FeedMonitor == {1, 5}

----------------------------------------------------------------------------
VARIABLES
    pc,               \* position of the tasks "main", "poller", "fresh", "reader"
    feed,             \* the answers the price API may give (indices of Responses)
    cached_data,      \* HyperliquidClient.cached_data
    rw_writer,        \* the RwLock's write guard is held
    rw_readers,       \* number of read guards held
    response,         \* per refresh call: the HTTP response it received (index)
    market_data_map,  \* per refresh call: the local map it parsed
    ret,              \* per refresher: what its last fetch_and_cache_all_markets returned
    arg,              \* per get_market_data caller: the coin asked for
    got,              \* per get_market_data caller: what the last call returned
    started_before,   \* the poller's fetch in progress began before the
                      \* get_fresh_market_data call in progress did
    cache_stale,      \* the cache holds the map of a fetch that began before the
                      \* get_fresh_market_data call in progress did
    created_tables,   \* MetricsDatabase.created_tables
    db_schema,        \* datastore: schema market_metrics exists
    db_tables,        \* datastore: table name -> set of rows
    ddl_count,        \* datastore: table name -> DDL batches executed for it
    ensure_ops,       \* pool/datastore operations of the last ensure_market_table call
    ensure_ret,       \* what the last ensure_market_table call returned
    next_market,      \* MarketMetricsMonitor::new: index of the market to provision next
    polling_tasks,    \* number of polling tasks spawned
    m_pc,             \* per market: position of its monitor_market task
    metrics,          \* per market: the MarketMetrics of the sample in progress
    m_ret,            \* per market: what its last collect_and_store_metrics returned
    in_progress,      \* per market: samples begun and not yet ended
    empty_side,       \* per market: the sample in progress met an empty bid or ask side
    db_mutex,         \* owner of Mutex<MetricsDatabase> (0: free)
    ob_mutex,         \* owner of Mutex<OrderBookListener> (0: free)
    merge_run,        \* a MarketMetrics record merged in both orders
    depth_run         \* one application of calculate_liquidity_depth

clientVars == <<cached_data, rw_writer, rw_readers, response, market_data_map,
                ret, arg, got, started_before, cache_stale>>
dbVars == <<created_tables, db_schema, db_tables, ddl_count, ensure_ops, ensure_ret>>
monitorVars == <<next_market, polling_tasks, m_pc, metrics, m_ret, in_progress, empty_side,
                 db_mutex, ob_mutex>>
pureVars == <<merge_run, depth_run>>
vars == <<pc, feed, clientVars, dbVars, monitorVars, pureVars>>

(* no merge and no depth calculation is exercised *)
NoMergeRun == [stage |-> "off"]
NoDepthRun == [stage |-> "off"]
PureInit == merge_run = NoMergeRun /\ depth_run = NoDepthRun

Refreshers == {"poller", "fresh"}
Callers == {"fresh", "reader"}

(* the positions of a refresher inside fetch_and_cache_all_markets *)
InCall(p) == p \in {"sending", "json", "write_lock", "swap"}

(* what a caller got back: tag "none" (no call yet), "ok" with the Option  *)
(* get_market_data returned (for "fresh": the entry), or "err"            *)
NotCalled == [tag |-> "none", v |-> None]
GotOk(o) == [tag |-> "ok", v |-> o]
GotErr == [tag |-> "err", v |-> None]

(* HyperliquidClient::new *)
ClientInit ==
    /\ cached_data = EmptyMap
    /\ rw_writer = FALSE
    /\ rw_readers = 0
    /\ response = [r \in Refreshers |-> NoResponse]
    /\ market_data_map = [r \in Refreshers |-> EmptyMap]
    /\ ret = [r \in Refreshers |-> "none"]
    /\ arg = [c \in Callers |-> BTC]
    /\ got = [c \in Callers |-> NotCalled]
    /\ started_before = FALSE
    /\ cache_stale = FALSE

PollerNext_StopOnErr(result) == IF result = "err" THEN "stopped" ELSE "idle"

(* start_polling's loop: whatever the refresh returned, wait for the next tick *)
PollerNext(result) == "idle"

(* where a refresh call continues once fetch_and_cache_all_markets returned *)
AfterRefresh(r, result) ==
    IF r = "poller" THEN PollerNext(result)
    ELSE IF result = "ok" THEN "read_lock" ELSE "idle"

(* fetch_and_cache_all_markets returns `result` to refresher r *)
Return(r, result) ==
    /\ pc' = [pc EXCEPT ![r] = AfterRefresh(r, result)]
    /\ ret' = [ret EXCEPT ![r] = result]
    /\ response' = [response EXCEPT ![r] = NoResponse]
    /\ market_data_map' = [market_data_map EXCEPT ![r] = EmptyMap]
    /\ got' = IF r = "fresh" /\ result = "err"
              THEN [got EXCEPT ![r] = GotErr] ELSE got

(* the polling loop's interval.tick() fires *)
PollTick ==
    /\ pc["poller"] = "idle"
    /\ pc' = [pc EXCEPT !["poller"] = "sending"]
    /\ started_before' = FALSE
    /\ UNCHANGED <<cached_data, rw_writer, rw_readers, response, market_data_map,
                   ret, arg, got, cache_stale>>
    /\ UNCHANGED <<feed, pureVars, dbVars, monitorVars>>

(* get_fresh_market_data(coin) is called *)
FreshCall ==
    /\ pc["fresh"] = "idle"
    /\ \E coin \in Coins : arg' = [arg EXCEPT !["fresh"] = coin]
    /\ pc' = [pc EXCEPT !["fresh"] = "sending"]
    /\ started_before' = InCall(pc["poller"])
    /\ cache_stale' = TRUE
    /\ UNCHANGED <<cached_data, rw_writer, rw_readers, response, market_data_map,
                   ret, got>>
    /\ UNCHANGED <<feed, pureVars, dbVars, monitorVars>>

(* send().await? and the status check *)
SendDone(r) ==
    /\ pc[r] = "sending"
    /\ \E i \in feed :
          IF Responses[i].kind = "error" \/ ~IsSuccess(Responses[i].status)
          THEN Return(r, "err")
          ELSE /\ pc' = [pc EXCEPT ![r] = "json"]
               /\ response' = [response EXCEPT ![r] = i]
               /\ UNCHANGED <<market_data_map, ret, got>>
    /\ UNCHANGED <<cached_data, rw_writer, rw_readers, arg, started_before, cache_stale>>
    /\ UNCHANGED <<feed, pureVars, dbVars, monitorVars>>

(* what response.json().await? and the parse give for each answer of the  *)
(* feed: Err for a body that is not JSON, else ParseResponse of the value  *)
JsonAndParse ==
    [i \in DOMAIN Responses |->
        IF Responses[i].json THEN ParseResponse(Responses[i].value)
        ELSE Err("error decoding response body")]

(* response.json().await? and the parse into the local market_data_map *)
JsonDone(r) ==
    /\ pc[r] = "json"
    /\ IF ~JsonAndParse[response[r]].ok THEN Return(r, "err")
       ELSE /\ pc' = [pc EXCEPT ![r] = "write_lock"]
            /\ market_data_map' = [market_data_map EXCEPT ![r] = JsonAndParse[response[r]].v]
            /\ UNCHANGED <<response, ret, got>>
    /\ UNCHANGED <<cached_data, rw_writer, rw_readers, arg, started_before, cache_stale>>
    /\ UNCHANGED <<feed, pureVars, dbVars, monitorVars>>

(* The lock taken before the request is sent instead of after the parse *)
WriteAcquire_BeforeFetch(r) ==
    /\ pc[r] = "sending"
    /\ ~rw_writer /\ rw_readers = 0
    /\ rw_writer' = TRUE
    /\ pc' = [pc EXCEPT ![r] = "sending"]
    /\ UNCHANGED <<cached_data, rw_readers, response, market_data_map, ret, arg, got>>
    /\ UNCHANGED <<started_before, cache_stale>>
    /\ UNCHANGED <<feed, pureVars, dbVars, monitorVars>>

(* self.cached_data.write().await is granted *)
WriteAcquire(r) ==
    /\ pc[r] = "write_lock"
    /\ ~rw_writer /\ rw_readers = 0
    /\ rw_writer' = TRUE
    /\ pc' = [pc EXCEPT ![r] = "swap"]
    /\ UNCHANGED <<cached_data, rw_readers, response, market_data_map, ret, arg, got>>
    /\ UNCHANGED <<started_before, cache_stale>>
    /\ UNCHANGED <<feed, pureVars, dbVars, monitorVars>>

SwapCache_Patch(cache, map) ==
    [k \in (DOMAIN cache) \cup (DOMAIN map) |->
        IF k \in DOMAIN map THEN map[k] ELSE cache[k]]

(* *cache = market_data_map *)
SwapCache(cache, map) == map

(* the assignment under the write guard, the guard's drop and Ok(()) *)
Swap(r) ==
    /\ pc[r] = "swap"
    /\ cached_data' = SwapCache(cached_data, market_data_map[r])
    /\ rw_writer' = FALSE
    /\ Return(r, "ok")
    /\ cache_stale' = (r = "poller" /\ started_before)
    /\ UNCHANGED <<rw_readers, arg, started_before>>
    /\ UNCHANGED <<feed, pureVars, dbVars, monitorVars>>

DropReadGuard_Hold(n) == n

(* the read guard of get_market_data goes out of scope when it returns *)
DropReadGuard(n) == n - 1

(* a refresher waits in cached_data.write().await behind a read guard *)
WriterQueued == rw_readers > 0 /\ \E r \in Refreshers : pc[r] = "write_lock"

(* when cached_data.read().await is granted: no write guard is held, and   *)
(* no writer waits ahead in the lock's queue (tokio's RwLock is fair)      *)
CanRead == ~rw_writer /\ ~WriterQueued

(* get_market_data: self.cached_data.read().await is granted *)
ReadAcquire(c) ==
    /\ \/ c = "fresh" /\ pc[c] = "read_lock" /\ arg' = arg
       \/ c = "reader" /\ pc[c] = "idle"
            /\ \E coin \in Coins : arg' = [arg EXCEPT ![c] = coin]
    /\ CanRead
    /\ rw_readers' = rw_readers + 1
    /\ pc' = [pc EXCEPT ![c] = "reading"]
    /\ UNCHANGED <<cached_data, rw_writer, response, market_data_map, ret, got>>
    /\ UNCHANGED <<started_before, cache_stale>>
    /\ UNCHANGED <<feed, pureVars, dbVars, monitorVars>>

(* get_fresh_market_data turns None into Err("Coin .. not found") *)
CallerResult(c, o) == IF c = "fresh" /\ ~IsSome(o) THEN GotErr ELSE GotOk(o)

(* cache.get(coin).cloned() and the read guard's drop *)
ReadGet(c) ==
    /\ pc[c] = "reading"
    /\ got' = [got EXCEPT ![c] = CallerResult(c, MapGet(cached_data, arg[c]))]
    /\ rw_readers' = DropReadGuard(rw_readers)
    /\ pc' = [pc EXCEPT ![c] = "idle"]
    /\ UNCHANGED <<cached_data, rw_writer, response, market_data_map, ret, arg>>
    /\ UNCHANGED <<started_before, cache_stale>>
    /\ UNCHANGED <<feed, pureVars, dbVars, monitorVars>>

----------------------------------------------------------------------------
(* database.rs *)

(* format!("{}_metrics_raw", coin_symbol.to_lowercase()) *)
TableName(coin_symbol) == ToLowercase(coin_symbol) \o <<"_metrics_raw">>
AllTableNames ==
    {TableName(c) : c \in DbSymbols \cup {TargetMarkets[i] : i \in MarketIds}}

(* the fields of MetricsDatabase and the datastore before MetricsDatabase::new *)
DbInit ==
    /\ created_tables = {}
    /\ db_schema = FALSE
    /\ db_tables = EmptyMap
    /\ ddl_count = [t \in AllTableNames |-> 0]
    /\ ensure_ops = <<>>
    /\ ensure_ret = "none"

AlreadyCreated_Never(tables, table_name) == FALSE

(* self.created_tables.contains(&table_name) *)
AlreadyCreated(tables, table_name) == table_name \in tables

(* CREATE TABLE IF NOT EXISTS (and its indexes): existing rows are kept *)
CreateTableIfNotExists(tables, table_name) ==
    IF table_name \in DOMAIN tables THEN tables ELSE MapInsert(tables, table_name, {})

(* the name recorded in created_tables before the DDL batch is run *)
ensure_market_table_RecordFirst(coin_symbol, outcome) ==
    LET table_name == TableName(coin_symbol) IN
    IF AlreadyCreated(created_tables, table_name)
    THEN /\ ensure_ret' = "ok"
         /\ ensure_ops' = <<>>
         /\ UNCHANGED <<created_tables, db_tables, ddl_count>>
    ELSE IF outcome = "pool_err"
    THEN /\ ensure_ret' = "err"
         /\ ensure_ops' = <<"get">>
         /\ UNCHANGED <<created_tables, db_tables, ddl_count>>
    ELSE IF outcome = "ddl_err"
    THEN /\ ensure_ret' = "err"
         /\ ensure_ops' = <<"get", "batch_execute">>
         /\ created_tables' = created_tables \cup {table_name}
         /\ UNCHANGED <<db_tables, ddl_count>>
    ELSE /\ ensure_ret' = "ok"
         /\ ensure_ops' = <<"get", "batch_execute">>
         /\ db_tables' = CreateTableIfNotExists(db_tables, table_name)
         /\ ddl_count' = [ddl_count EXCEPT ![table_name] = @ + 1]
         /\ created_tables' = created_tables \cup {table_name}

(* ensure_market_table(coin_symbol); outcome is what the pool and the      *)
(* datastore do if they are asked: "pool_err", "ddl_err" or "ok"           *)
ensure_market_table(coin_symbol, outcome) ==
    LET table_name == TableName(coin_symbol) IN
    IF AlreadyCreated(created_tables, table_name)
    THEN /\ ensure_ret' = "ok"
         /\ ensure_ops' = <<>>
         /\ UNCHANGED <<created_tables, db_tables, ddl_count>>
    ELSE IF outcome = "pool_err"
    THEN /\ ensure_ret' = "err"
         /\ ensure_ops' = <<"get">>
         /\ UNCHANGED <<created_tables, db_tables, ddl_count>>
    ELSE IF outcome = "ddl_err"
    THEN /\ ensure_ret' = "err"
         /\ ensure_ops' = <<"get", "batch_execute">>
         /\ UNCHANGED <<created_tables, db_tables, ddl_count>>
    ELSE /\ ensure_ret' = "ok"
         /\ ensure_ops' = <<"get", "batch_execute">>
         /\ db_tables' = CreateTableIfNotExists(db_tables, table_name)
         /\ ddl_count' = [ddl_count EXCEPT ![table_name] = @ + 1]
         /\ created_tables' = created_tables \cup {table_name}
EnsureOutcomes == {"pool_err", "ddl_err", "ok"}

UniqueViolation_Never(rows, rec) == FALSE

(* UNIQUE(timestamp, coin) *)
UniqueViolation(rows, rec) ==
    \E row \in rows : row.timestamp = rec.timestamp /\ row.coin = rec.coin

InsertTableName_AsIs(coin) == coin \o <<"_metrics_raw">>

(* format!("{}_metrics_raw", metrics.coin.to_lowercase()) *)
InsertTableName(coin) == ToLowercase(coin) \o <<"_metrics_raw">>

(* insert_metrics(&metrics): [ret, tables], ret "ok" or the error; outcome *)
(* is what the pool and the connection do: "pool_err", "exec_err" or "ok"  *)
insert_metrics(tables, rec, outcome) ==
    LET table_name == InsertTableName(rec.coin) IN
    IF outcome = "pool_err" THEN [ret |-> "pool error", tables |-> tables]
    ELSE IF outcome = "exec_err" THEN [ret |-> "db error", tables |-> tables]
    ELSE IF table_name \notin DOMAIN tables
    THEN [ret |-> "db error: no table", tables |-> tables]
    ELSE IF UniqueViolation(tables[table_name], rec)
    THEN [ret |-> "db error: unique violation", tables |-> tables]
    ELSE [ret |-> "ok",
          tables |-> [tables EXCEPT ![table_name] = @ \cup {rec}]]
InsertOutcomes == {"pool_err", "exec_err", "ok"}

----------------------------------------------------------------------------
(* monitor.rs *)

MonitorInit ==
    /\ next_market = 1
    /\ polling_tasks = 0
    /\ m_pc = [m \in MarketIds |-> "unspawned"]
    /\ metrics = [m \in MarketIds |-> None]
    /\ m_ret = [m \in MarketIds |-> "none"]
    /\ in_progress = [m \in MarketIds |-> 0]
    /\ empty_side = [m \in MarketIds |-> FALSE]
    /\ db_mutex = 0
    /\ ob_mutex = 0

(* MetricsDatabase::new: the pool and create_schema().await? *)
NewDatabase ==
    /\ pc["main"] = "new_db"
    /\ \E outcome \in {"ok", "err"} :
          IF outcome = "ok"
          THEN /\ db_schema' = TRUE
               /\ pc' = [pc EXCEPT !["main"] =
                            IF Len(TargetMarkets) = 0 THEN "start_polling"
                            ELSE "ensure_tables"]
          ELSE /\ db_schema' = db_schema
               /\ pc' = [pc EXCEPT !["main"] = "failed"]
    /\ UNCHANGED <<created_tables, db_tables, ddl_count, ensure_ops, ensure_ret>>
    /\ UNCHANGED <<feed, pureVars, clientVars, monitorVars>>

AfterEnsure_IgnoreErr(result, i) ==
    IF i >= Len(TargetMarkets) THEN "start_polling" ELSE "ensure_tables"

(* new's loop `database.ensure_market_table(market).await?` after the call *)
(* for market i returned `result`                                          *)
AfterEnsure(result, i) ==
    IF result = "err" THEN "failed"
    ELSE IF i >= Len(TargetMarkets) THEN "start_polling"
    ELSE "ensure_tables"

(* one iteration of the provisioning loop in MarketMetricsMonitor::new *)
EnsureTables ==
    /\ pc["main"] = "ensure_tables"
    /\ \E outcome \in EnsureOutcomes :
          ensure_market_table(TargetMarkets[next_market], outcome)
    /\ pc' = [pc EXCEPT !["main"] = AfterEnsure(ensure_ret', next_market)]
    /\ next_market' = next_market + 1
    /\ UNCHANGED <<db_schema, polling_tasks, m_pc, metrics, m_ret, in_progress, empty_side,
                   db_mutex, ob_mutex>>
    /\ UNCHANGED <<feed, pureVars, clientVars>>

(* HyperliquidClient::new, start_polling() and Ok(Self) *)
StartPolling ==
    /\ pc["main"] = "start_polling"
    /\ polling_tasks' = polling_tasks + 1
    /\ pc' = [pc EXCEPT !["main"] = "constructed", !["poller"] = "idle"]
    /\ UNCHANGED <<next_market, m_pc, metrics, m_ret, in_progress, empty_side, db_mutex, ob_mutex>>
    /\ UNCHANGED <<feed, pureVars, clientVars, dbVars>>

(* MarketMetricsMonitor::start: one monitor_market task per target market *)
Start ==
    /\ pc["main"] = "constructed"
    /\ pc' = [pc EXCEPT !["main"] = "started"]
    /\ m_pc' = [m \in MarketIds |-> "idle"]
    /\ UNCHANGED <<next_market, polling_tasks, metrics, m_ret, in_progress, empty_side,
                   db_mutex, ob_mutex>>
    /\ UNCHANGED <<feed, pureVars, clientVars, dbVars>>

CanTick_Always(m) == m_pc[m] \notin {"unspawned", "panicked"}

(* monitor_market is at interval.tick().await *)
CanTick(m) == m_pc[m] = "idle"

(* the tick fires: MarketMetrics::new(coin) and metrics.timestamp = Utc::now() *)
Tick(m) ==
    /\ CanTick(m)
    /\ \E now \in 0..MaxTime :
          metrics' = [metrics EXCEPT ![m] = Some(MarketMetricsNew(TargetMarkets[m], now))]
    /\ in_progress' = [in_progress EXCEPT ![m] = @ + 1]
    /\ m_ret' = [m_ret EXCEPT ![m] = "none"]
    /\ m_pc' = [m_pc EXCEPT ![m] = "read_cache"]
    /\ UNCHANGED <<next_market, polling_tasks, empty_side, db_mutex, ob_mutex>>
    /\ UNCHANGED <<pc, feed, pureVars, clientVars, dbVars>>

(* get_market_data(coin) under the read guard, and the merge of its result *)
ReadCache(m) ==
    /\ m_pc[m] = "read_cache"
    /\ CanRead
    /\ LET hl_data == MapGet(cached_data, TargetMarkets[m]) IN
       metrics' = [metrics EXCEPT ![m] =
                      IF IsSome(hl_data)
                      THEN Some(merge_hyperliquid_data(Unwrap(@), Unwrap(hl_data)))
                      ELSE @]
    /\ rw_readers' = DropReadGuard(rw_readers + 1)
    /\ m_pc' = [m_pc EXCEPT ![m] = "ob_lock"]
    /\ UNCHANGED <<next_market, polling_tasks, m_ret, in_progress, empty_side, db_mutex, ob_mutex>>
    /\ UNCHANGED <<cached_data, rw_writer, response, market_data_map, ret, arg, got,
                   started_before, cache_stale>>
    /\ UNCHANGED <<pc, feed, pureVars, dbVars>>

(* self.orderbook_listener.lock().await is granted *)
ObAcquire(m) ==
    /\ m_pc[m] = "ob_lock"
    /\ ob_mutex = 0
    /\ ob_mutex' = m
    /\ m_pc' = [m_pc EXCEPT ![m] = "ob_query"]
    /\ UNCHANGED <<next_market, polling_tasks, metrics, m_ret, in_progress, empty_side, db_mutex>>
    /\ UNCHANGED <<pc, feed, pureVars, clientVars, dbVars>>

(* get_orderbook_metrics(coin of market m) on each snapshot *)
OrderbookMetricsOf ==
    [i \in DOMAIN Snapshots |->
        [m \in MarketIds |-> get_orderbook_metrics(Snapshots[i], TargetMarkets[m])]]

(* the body of get_orderbook_metrics under the listener's guard, the drop  *)
(* of the guard, and the merge of the result.  A panic unwinds the task:   *)
(* the guard is dropped and monitor_market is gone.                        *)
ObQuery(m) ==
    /\ m_pc[m] = "ob_query"
    /\ ob_mutex' = 0
    /\ \E i \in DOMAIN Snapshots : \E ob \in {OrderbookMetricsOf[i][m]} :
          IF ob.kind = "panic"
          THEN /\ m_pc' = [m_pc EXCEPT ![m] = "panicked"]
               /\ metrics' = [metrics EXCEPT ![m] = None]
               /\ in_progress' = [in_progress EXCEPT ![m] = @ - 1]
               /\ empty_side' = empty_side
          ELSE /\ m_pc' = [m_pc EXCEPT ![m] = "db_lock"]
               /\ metrics' = [metrics EXCEPT ![m] =
                                 IF ob.kind = "some"
                                 THEN Some(merge_orderbook_data(Unwrap(@), Unwrap(ob.v)))
                                 ELSE @]
               /\ in_progress' = in_progress
               /\ empty_side' = [empty_side EXCEPT
                                    ![m] = EmptySide(Snapshots[i], TargetMarkets[m])]
    /\ UNCHANGED <<next_market, polling_tasks, m_ret, db_mutex>>
    /\ UNCHANGED <<pc, feed, pureVars, clientVars, dbVars>>

(* insert_metrics entered without waiting for the mutex *)
DbAcquire_NoWait(m) ==
    /\ m_pc[m] = "db_lock"
    /\ db_mutex' = m
    /\ m_pc' = [m_pc EXCEPT ![m] = "inserting"]
    /\ UNCHANGED <<next_market, polling_tasks, metrics, m_ret, in_progress, empty_side, ob_mutex>>
    /\ UNCHANGED <<pc, feed, pureVars, clientVars, dbVars>>

(* self.database.lock().await is granted *)
DbAcquire(m) ==
    /\ m_pc[m] = "db_lock"
    /\ db_mutex = 0
    /\ db_mutex' = m
    /\ m_pc' = [m_pc EXCEPT ![m] = "inserting"]
    /\ UNCHANGED <<next_market, polling_tasks, metrics, m_ret, in_progress, empty_side, ob_mutex>>
    /\ UNCHANGED <<pc, feed, pureVars, clientVars, dbVars>>

DropDbGuard_LeakOnErr(owner, result) == IF result = "ok" THEN 0 ELSE owner

(* the guard `db` goes out of scope on `?` and at the end of the function *)
DropDbGuard(owner, result) == 0

(* db.insert_metrics(&metrics).await returns; collect_and_store_metrics    *)
(* returns its result to monitor_market, which logs an error and loops     *)
InsertDone(m) ==
    /\ m_pc[m] = "inserting"
    /\ \E outcome \in InsertOutcomes :
          LET res == insert_metrics(db_tables, Unwrap(metrics[m]), outcome) IN
          /\ db_tables' = res.tables
          /\ m_ret' = [m_ret EXCEPT ![m] = res.ret]
          /\ db_mutex' = DropDbGuard(db_mutex, res.ret)
    /\ metrics' = [metrics EXCEPT ![m] = None]
    /\ in_progress' = [in_progress EXCEPT ![m] = @ - 1]
    /\ empty_side' = [empty_side EXCEPT ![m] = FALSE]
    /\ m_pc' = [m_pc EXCEPT ![m] = "idle"]
    /\ UNCHANGED <<next_market, polling_tasks, ob_mutex>>
    /\ UNCHANGED <<created_tables, db_schema, ddl_count, ensure_ops, ensure_ret>>
    /\ UNCHANGED <<pc, feed, pureVars, clientVars>>

----------------------------------------------------------------------------
(* The HyperliquidClient alone: the polling task, a get_fresh_market_data  *)
(* caller and a get_market_data caller.                                    *)
InitClient ==
    /\ ClientInit
    /\ PureInit
    /\ DbInit
    /\ MonitorInit
    /\ feed = FeedClient
    /\ pc = [t \in {"main", "poller", "fresh", "reader"} |->
                IF t = "main" THEN "absent" ELSE "idle"]

NextClient ==
    \/ PollTick
    \/ FreshCall
    \/ \E r \in Refreshers : SendDone(r)
    \/ \E r \in Refreshers : JsonDone(r)
    \/ \E r \in Refreshers : WriteAcquire(r)
    \/ \E r \in Refreshers : Swap(r)
    \/ \E c \in Callers : ReadAcquire(c)
    \/ \E c \in Callers : ReadGet(c)

SpecClient == InitClient /\ [][NextClient]_vars

(* Fairness of the client's tasks: timers fire, requests end (5 s timeout), *)
(* guards are dropped, and tokio's RwLock queues its waiters fairly.       *)
ClientFairness ==
    /\ WF_vars(PollTick)
    /\ \A r \in Refreshers : WF_vars(SendDone(r)) /\ WF_vars(JsonDone(r))
    /\ \A r \in Refreshers : SF_vars(WriteAcquire(r)) /\ WF_vars(Swap(r))
    /\ \A c \in Callers : WF_vars(ReadGet(c))

FairSpecClient == SpecClient /\ ClientFairness

----------------------------------------------------------------------------
(* The whole monitor: MarketMetricsMonitor::new, start, the polling task   *)
(* and the monitor_market tasks.                                           *)
Init ==
    /\ ClientInit
    /\ PureInit
    /\ DbInit
    /\ MonitorInit
    /\ feed = FeedMonitor
    /\ pc = [t \in {"main", "poller", "fresh", "reader"} |->
                IF t = "main" THEN "new_db"
                ELSE IF t = "poller" THEN "unspawned" ELSE "absent"]

Next ==
    \/ NewDatabase
    \/ EnsureTables
    \/ StartPolling
    \/ Start
    \/ PollTick
    \/ SendDone("poller")
    \/ JsonDone("poller")
    \/ WriteAcquire("poller")
    \/ Swap("poller")
    \/ \E m \in MarketIds : Tick(m)
    \/ \E m \in MarketIds : ReadCache(m)
    \/ \E m \in MarketIds : ObAcquire(m)
    \/ \E m \in MarketIds : ObQuery(m)
    \/ \E m \in MarketIds : DbAcquire(m)
    \/ \E m \in MarketIds : InsertDone(m)

Spec == Init /\ [][Next]_vars

(* A MetricsDatabase alone, after MetricsDatabase::new, called in any order *)
InitDb ==
    /\ ClientInit
    /\ PureInit
    /\ MonitorInit
    /\ feed = {}
    /\ pc = [t \in {"main", "poller", "fresh", "reader"} |-> "absent"]
    /\ created_tables = {}
    /\ db_schema = TRUE
    /\ db_tables = EmptyMap
    /\ ddl_count = [t \in AllTableNames |-> 0]
    /\ ensure_ops = <<>>
    /\ ensure_ret = "none"

EnsureCall(coin_symbol) ==
    /\ \E outcome \in EnsureOutcomes : ensure_market_table(coin_symbol, outcome)
    /\ UNCHANGED <<db_schema, pc, feed, pureVars, clientVars, monitorVars>>

InsertCall(coin, now) ==
    /\ \E outcome \in InsertOutcomes :
          db_tables' = insert_metrics(db_tables, MarketMetricsNew(coin, now), outcome).tables
    /\ UNCHANGED <<created_tables, db_schema, ddl_count, ensure_ops, ensure_ret>>
    /\ UNCHANGED <<pc, feed, pureVars, clientVars, monitorVars>>

NextDb ==
    \/ \E c \in DbSymbols : EnsureCall(c)
    \/ \E c \in DbSymbols, now \in 0..MaxTime : InsertCall(c, now)

SpecDb == InitDb /\ [][NextDb]_vars

----------------------------------------------------------------------------
(* The two merges of MarketMetrics alone: one new record, one price-feed   *)
(* entry and one order-book value, merged in both orders side by side.     *)

(* the ladders the order-book values are computed from *)
MergeLadders(book) == {book, <<book[1]>>, <<book[2]>>, <<book[2], book[1]>>}

(* OrderBookMetrics values: get_orderbook_metrics on two-sided books *)
MergeObInputs ==
    {Unwrap(get_orderbook_metrics(Some((BTC :> <<b, a>>)), BTC).v) :
        b \in MergeLadders(BookBids), a \in MergeLadders(BookAsks)}

(* HyperliquidMarketData values: every entry a payload of the feed parses to *)
MergeHlInputs ==
    UNION {{JsonAndParse[i].v[c] : c \in DOMAIN JsonAndParse[i].v} :
              i \in {j \in DOMAIN Responses : JsonAndParse[j].ok}}

InitMerge ==
    /\ ClientInit
    /\ DbInit
    /\ MonitorInit
    /\ feed = {}
    /\ pc = [t \in {"main", "poller", "fresh", "reader"} |-> "absent"]
    /\ depth_run = NoDepthRun
    /\ \E coin \in Coins, now \in 0..MaxTime, hl \in MergeHlInputs, ob \in MergeObInputs :
          merge_run = [stage |-> "new", hl |-> hl, ob |-> ob,
                       hl_first |-> MarketMetricsNew(coin, now),
                       ob_first |-> MarketMetricsNew(coin, now)]

(* the first merge of each order *)
MergeFirst ==
    /\ merge_run.stage = "new"
    /\ merge_run' =
          [merge_run EXCEPT !.stage = "one",
                            !.hl_first = merge_hyperliquid_data(@, merge_run.hl),
                            !.ob_first = merge_orderbook_data(@, merge_run.ob)]
    /\ UNCHANGED <<pc, feed, clientVars, dbVars, monitorVars, depth_run>>

(* the second merge of each order *)
MergeSecond ==
    /\ merge_run.stage = "one"
    /\ merge_run' =
          [merge_run EXCEPT !.stage = "both",
                            !.hl_first = merge_orderbook_data(@, merge_run.ob),
                            !.ob_first = merge_hyperliquid_data(@, merge_run.hl)]
    /\ UNCHANGED <<pc, feed, clientVars, dbVars, monitorVars, depth_run>>

NextMerge == MergeFirst \/ MergeSecond

SpecMerge == InitMerge /\ [][NextMerge]_vars

----------------------------------------------------------------------------
(* calculate_liquidity_depth alone, on ladders of at most MaxLen levels.   *)
MaxLen == 2

Level(price, size) == <<DecFromInt(price), DecFromInt(size)>>

(* bid and ask levels around the mid prices 100 and 100.5: on, inside and  *)
(* outside each band's threshold                                           *)
DepthBidLevels ==
    {Level(100, 2), Level(99, 3), Level(95, 1), Level(93, 2), Level(80, 1), Level(70, 3)}
DepthAskLevels ==
    {Level(101, 1), Level(102, 4), Level(105, 2), Level(108, 1), Level(120, 2),
     Level(130, 1)}

(* the slices of at most MaxLen levels, in any order, the empty one included *)
Ladders(levels) == UNION {[1..n -> levels] : n \in 0..MaxLen}

(* mid prices: negative, zero, 100 and 100.5 *)
DepthMids == {DecFromInt(0 - 100), DecZero, DecFromInt(100),
              DecFromInt(100) + DecScale \div 2}

InitDepth ==
    /\ ClientInit
    /\ DbInit
    /\ MonitorInit
    /\ feed = {}
    /\ pc = [t \in {"main", "poller", "fresh", "reader"} |-> "absent"]
    /\ merge_run = NoMergeRun
    /\ \E bids \in Ladders(DepthBidLevels), asks \in Ladders(DepthAskLevels),
          mid_price \in DepthMids :
          depth_run = [stage |-> "input", bids |-> bids, asks |-> asks,
                       mid_price |-> mid_price, depths |-> <<>>]

(* calculate_liquidity_depth(bids, asks, mid_price) is called and returns *)
CalculateDepth ==
    /\ depth_run.stage = "input"
    /\ depth_run' =
          [depth_run EXCEPT !.stage = "computed",
                            !.depths = calculate_liquidity_depth(depth_run.bids,
                                           depth_run.asks, depth_run.mid_price)]
    /\ UNCHANGED <<pc, feed, clientVars, dbVars, monitorVars, merge_run>>

(* the orders a slice's levels can be given in *)
Reordered(ladder) ==
    {[i \in DOMAIN ladder |-> ladder[p[i]]] : p \in Permutations(DOMAIN ladder)}

(* the same levels in another order, and the depths calculated again *)
ReorderLadders ==
    /\ depth_run.stage = "computed"
    /\ \E bids \in Reordered(depth_run.bids), asks \in Reordered(depth_run.asks) :
          /\ <<bids, asks>> # <<depth_run.bids, depth_run.asks>>
          /\ depth_run' =
                [depth_run EXCEPT !.bids = bids, !.asks = asks,
                                  !.depths = calculate_liquidity_depth(bids, asks,
                                                 depth_run.mid_price)]
    /\ UNCHANGED <<pc, feed, clientVars, dbVars, monitorVars, merge_run>>

NextDepth == CalculateDepth \/ ReorderLadders

SpecDepth == InitDepth /\ [][NextDepth]_vars

----------------------------------------------------------------------------
(* Claims *)

(* the ways a refresh fails: transport error or timeout, non-success       *)
(* status, a body that is not JSON, a top level that is not a 2-element    *)
(* array of (universe, contexts), a paired element that does not           *)
(* deserialize                                                             *)
BadElements(value) ==
    LET u == ExtractUniverse(value.v[1])
        c == AsArray(value.v[2])
    IN  \/ ~IsSome(u)
        \/ ~IsSome(c)
        \/ \E i \in DOMAIN Unwrap(u) :
              /\ i <= Len(Unwrap(c))
              /\ \/ ~IsSome(FromValueAssetMeta(Unwrap(u)[i]))
                 \/ ~IsSome(FromValueAssetContext(Unwrap(c)[i]))
RefreshMustFail(i) ==
    \/ Responses[i].kind = "error"
    \/ ~IsSuccess(Responses[i].status)
    \/ ~Responses[i].json
    \/ ~IsArr(Responses[i].value)
    \/ Len(Responses[i].value.v) # 2
    \/ BadElements(Responses[i].value)

(* C1: a refresh that fails leaves the cached map exactly as it was: the   *)
(* step in which a call returns an error changes nothing in the cache, and *)
(* the cache changes only in the swap of a call whose response has none of *)
(* the failures and which returns Ok.                                      *)
C1_FailedRefreshKeepsCache ==
    [][/\ \A r \in Refreshers :
            (InCall(pc[r]) /\ ~InCall(pc'[r]) /\ ret'[r] = "err")
                => cached_data' = cached_data
       /\ (cached_data' # cached_data) =>
            \E r \in Refreshers :
                /\ pc[r] = "swap" /\ ~InCall(pc'[r])
                /\ ~RefreshMustFail(response[r])
                /\ ret'[r] = "ok"]_vars

(* a refresh failed on an undeserializable element while entries were cached *)
C1_Witness ==
    /\ cached_data # EmptyMap
    /\ \E r \in Refreshers : ret[r] = "err" /\ pc[r] = "idle"

(* the complete maps of the payloads the feed can deliver *)
GoodResponses ==
    {i \in DOMAIN Responses :
        /\ Responses[i].kind = "http" /\ IsSuccess(Responses[i].status)
        /\ Responses[i].json /\ ParseResponse(Responses[i].value).ok}
CompleteMaps == {ParseResponse(Responses[i].value).v : i \in GoodResponses}

(* C2: at every moment the cache is empty or the complete map of exactly   *)
(* one fetched payload, never a mixture, and the entry a finished read     *)
(* returned for a coin is that coin's entry in one complete map.           *)
C2_CacheIsOneWholeFetch ==
    /\ cached_data = EmptyMap \/ cached_data \in CompleteMaps
    /\ \A c \in Callers :
          (pc[c] = "idle" /\ IsSome(got[c].v)) =>
              \E m \in CompleteMaps : MapGet(m, arg[c]) = got[c].v

(* a payload without ETH replaced one with ETH, and ETH reads as no data *)
C2_Witness ==
    /\ DOMAIN cached_data = {BTC}
    /\ arg["reader"] = ETH /\ got["reader"] = GotOk(None)
    /\ got["fresh"].tag = "ok" /\ arg["fresh"] = ETH

(* C6: the polling task survives every failed refresh: it is always in its *)
(* loop, and after a refresh returned an error it starts another one.      *)
C6_PollerSurvivesFailures ==
    /\ [](pc["poller"] \in {"idle", "sending", "json", "write_lock", "swap"})
    /\ (ret["poller"] = "err" /\ pc["poller"] = "idle") ~> (pc["poller"] = "sending")

(* after a failed refresh the poller is in the next refresh *)
C6_Witness == ret["poller"] = "err" /\ pc["poller"] = "json"

(* market a is inside the order-book query or inside the insert *)
InGuardedSection(a) == m_pc[a] \in {"ob_query", "inserting"}

(* C3: each market's loop is independent of stalls: while a market A sits  *)
(* inside the order-book query or inside the datastore insert, every other *)
(* market B that has reached a lock can take it and run on to persist its  *)
(* record without any step of A.                                           *)
C3_IndependentOfStalls ==
    \A a \in MarketIds : \A b \in MarketIds \ {a} :
        InGuardedSection(a) =>
            /\ m_pc[b] = "ob_lock" => ENABLED ObAcquire(b)
            /\ m_pc[b] = "db_lock" => ENABLED DbAcquire(b)

(* market 1 is inside the insert, holding the store's lock, and market 2   *)
(* waits for that lock                                                     *)
C3_Witness ==
    /\ m_pc[1] = "inserting" /\ db_mutex = 1
    /\ m_pc[2] = "db_lock"

(* what a step of market m leaves alone: the shared cache and store and    *)
(* everything of the other loops                                           *)
OthersUntouched(m) ==
    /\ cached_data' = cached_data
    /\ created_tables' = created_tables
    /\ db_tables' = db_tables
    /\ \A b \in MarketIds \ {m} :
          /\ m_pc'[b] = m_pc[b] /\ metrics'[b] = metrics[b]
          /\ m_ret'[b] = m_ret[b] /\ in_progress'[b] = in_progress[b]

InsertErrors ==
    {"pool error", "db error", "db error: no table", "db error: unique violation"}

(* C4: a failed sample of one market is local.  The step that finds no     *)
(* feed entry, the step that finds no order-book data and the step in      *)
(* which insert returns an error change nothing shared and nothing of the  *)
(* other loops, and leave no lock held: a market holds the listener's lock *)
(* only inside the order-book query and the store's lock only inside the   *)
(* insert, so a finished sample never keeps another market waiting.        *)
C4_FailedSampleIsLocal ==
    /\ [][\A m \in MarketIds :
            /\ ( /\ m_pc[m] = "read_cache" /\ m_pc'[m] # "read_cache"
                 /\ ~IsSome(MapGet(cached_data, TargetMarkets[m])) )
                  => /\ OthersUntouched(m)
                     /\ db_mutex' = db_mutex /\ ob_mutex' = ob_mutex
                     /\ m_pc'[m] = "ob_lock"
            /\ ( /\ m_pc[m] = "ob_query" /\ m_pc'[m] = "db_lock"
                 /\ metrics'[m] = metrics[m] )
                  => /\ OthersUntouched(m)
                     /\ ob_mutex' = 0 /\ db_mutex' = db_mutex
            /\ ( /\ m_pc[m] = "inserting" /\ m_pc'[m] # "inserting"
                 /\ m_ret'[m] \in InsertErrors )
                  => /\ OthersUntouched(m)
                     /\ db_mutex' = 0 /\ ob_mutex' = ob_mutex
                     /\ m_pc'[m] = "idle"]_vars
    /\ [](\A m \in MarketIds :
            /\ db_mutex = m => m_pc[m] = "inserting"
            /\ ob_mutex = m => m_pc[m] = "ob_query")

(* market 1's insert failed and, after it, market 2 took the store's lock *)
C4_Witness ==
    /\ m_ret[1] \in InsertErrors /\ m_pc[1] = "idle"
    /\ m_pc[2] = "inserting" /\ db_mutex = 2

(* C5: the per-market loop has no terminal state: whatever the cache and   *)
(* the order-book snapshot hold, a spawned market is waiting for its tick  *)
(* or inside a sample that ends back there; its task never ends.           *)
C5_NoTerminalState ==
    \A m \in MarketIds :
        m_pc[m] \in {"unspawned", "idle", "read_cache", "ob_lock", "ob_query",
                     "db_lock", "inserting"}

(* market 1's task ended in the order-book query; market 2 samples on *)
C5_Witness ==
    /\ m_pc[1] = "panicked" /\ ob_mutex = 0
    /\ m_pc[2] = "inserting"

(* C7: within one market samples never overlap: at most one sample of a    *)
(* market is in progress, and one is in progress exactly between its tick  *)
(* and the return of collect_and_store_metrics.                            *)
C7_SamplesNeverOverlap ==
    \A m \in MarketIds :
        /\ in_progress[m] <= 1
        /\ in_progress[m] = 1 <=>
              m_pc[m] \in {"read_cache", "ob_lock", "ob_query", "db_lock", "inserting"}

(* market 1 persisted a sample and is inside its next one, waiting for the *)
(* store's lock while market 2 inserts                                     *)
C7_Witness ==
    /\ in_progress[1] = 1 /\ m_pc[1] = "db_lock"
    /\ m_pc[2] = "inserting"
    /\ TableName(BTC) \in DOMAIN db_tables /\ db_tables[TableName(BTC)] # {}

TargetTables == {TableName(TargetMarkets[i]) : i \in MarketIds}

(* C8: startup is ordered.  The refresh task is started at most once and   *)
(* only when every configured symbol's table is provisioned; sampling      *)
(* loops exist only after the refresh task was started, one per symbol;    *)
(* a failed schema creation or table provisioning ends startup with an     *)
(* error, and then there is no refresh task and no sampling loop, ever.    *)
C8_StartupOrdered ==
    /\ polling_tasks <= 1
    /\ (polling_tasks = 1) <=> (pc["poller"] # "unspawned")
    /\ pc["poller"] # "unspawned" =>
          /\ db_schema
          /\ TargetTables \subseteq created_tables
          /\ TargetTables \subseteq DOMAIN db_tables
    /\ (\E m \in MarketIds : m_pc[m] # "unspawned") =>
          /\ polling_tasks = 1
          /\ \A m \in MarketIds : m_pc[m] # "unspawned"
    /\ ensure_ret = "err" => pc["main"] = "failed"
    /\ pc["main"] = "failed" =>
          /\ polling_tasks = 0
          /\ pc["poller"] = "unspawned"
          /\ \A m \in MarketIds : m_pc[m] = "unspawned"

(* the second symbol's table failed after the first was provisioned *)
C8_Witness ==
    /\ pc["main"] = "failed"
    /\ created_tables = {TableName(BTC)}
    /\ ensure_ret = "err"

(* C9: ensure_market_table is idempotent: a symbol's DDL succeeds at most  *)
(* once, and a call for a symbol whose table is in the provisioned set     *)
(* returns Ok without taking a connection or issuing DDL, and changes      *)
(* nothing.                                                                *)
C9_EnsureTableIdempotent ==
    /\ [](\A t \in AllTableNames : ddl_count[t] <= 1)
    /\ [][\A c \in DbSymbols :
            (EnsureCall(c) /\ TableName(c) \in created_tables) =>
                /\ ensure_ret' = "ok"
                /\ ensure_ops' = <<>>
                /\ UNCHANGED <<created_tables, db_tables, ddl_count>>]_vars

(* the table of BTC was provisioned and a later call was answered from the *)
(* provisioned set                                                         *)
C9_Witness ==
    /\ created_tables = {TableName(BTC)}
    /\ ddl_count[TableName(BTC)] = 1
    /\ ensure_ret = "ok" /\ ensure_ops = <<>>

(* a row of the same (timestamp, symbol) as rec is stored *)
StoredKey(tables, rec) ==
    /\ TableName(rec.coin) \in DOMAIN tables
    /\ \E row \in tables[TableName(rec.coin)] :
          row.timestamp = rec.timestamp /\ row.coin = rec.coin

(* C10: the store never holds two records of one (timestamp, symbol).  An  *)
(* insert for a stored pair is rejected: the store is unchanged, the loop  *)
(* receives the error, and is back waiting for its next tick.              *)
C10_UniqueTimestampSymbol ==
    /\ [](\A t \in DOMAIN db_tables : \A r1 \in db_tables[t] : \A r2 \in db_tables[t] :
            (r1.timestamp = r2.timestamp /\ r1.coin = r2.coin) => r1 = r2)
    /\ [][\A m \in MarketIds :
            ( /\ m_pc[m] = "inserting" /\ m_pc'[m] # "inserting"
              /\ StoredKey(db_tables, Unwrap(metrics[m])) )
                => /\ db_tables' = db_tables
                   /\ m_ret'[m] \in InsertErrors
                   /\ m_pc'[m] = "idle"
                   /\ db_mutex' = 0]_vars

(* a second sample of BTC at a stored timestamp was rejected *)
C10_Witness ==
    /\ m_ret[1] = "db error: unique violation" /\ m_pc[1] = "idle"
    /\ db_tables[TableName(BTC)] # {}

(* the fields merge_hyperliquid_data always fills *)
FeedFields ==
    {"mark_price", "oracle_price", "funding_rate_pct", "open_interest",
     "volume_24h", "premium"}
FeedPopulated(rec, data) ==
    /\ \A f \in FeedFields : rec[f] = Some(data[f])
    /\ rec.impact_px_bid = data.impact_px_bid
    /\ rec.impact_px_ask = data.impact_px_ask
FeedAbsent(rec) ==
    /\ \A f \in FeedFields : rec[f] = None
    /\ rec.impact_px_bid = None /\ rec.impact_px_ask = None
OrderbookAbsent(rec) == \A f \in OrderbookFields : rec[f] = None
OrderbookFilled(rec) == \A f \in OrderbookFields : rec[f] # None

(* C11: a sample that meets an empty bid or ask side still persists its    *)
(* record.  For such a snapshot get_orderbook_metrics returns None before  *)
(* any division; the sample goes on to the insert with every order-book    *)
(* field absent; the price-feed fields are the cache's entry when the      *)
(* cache had one; and a successful insert stores exactly that record.      *)
C11_EmptySideStillPersists ==
    /\ [](\A m \in MarketIds :
            empty_side[m] =>
                /\ m_pc[m] \in {"db_lock", "inserting"}
                /\ IsSome(metrics[m])
                /\ OrderbookAbsent(Unwrap(metrics[m])))
    /\ [](\A i \in DOMAIN Snapshots : \A m \in MarketIds :
            EmptySide(Snapshots[i], TargetMarkets[m]) => OrderbookMetricsOf[i][m] = ObNone)
    /\ [][\A m \in MarketIds :
            /\ ( /\ m_pc[m] = "read_cache" /\ m_pc'[m] = "ob_lock"
                 /\ IsSome(MapGet(cached_data, TargetMarkets[m])) )
                  => FeedPopulated(Unwrap(metrics'[m]),
                                   Unwrap(MapGet(cached_data, TargetMarkets[m])))
            /\ (m_pc[m] \in {"ob_query", "db_lock"} /\ empty_side'[m])
                  => metrics'[m] = metrics[m]
            /\ (m_pc[m] = "inserting" /\ empty_side[m] /\ m_ret'[m] = "ok")
                  => db_tables'[TableName(TargetMarkets[m])] =
                        db_tables[TableName(TargetMarkets[m])] \cup {Unwrap(metrics[m])}]_vars

(* BTC's sample read its feed entry, met a snapshot without bids, and is   *)
(* inserting its record                                                    *)
C11_Witness ==
    /\ empty_side[1] /\ m_pc[1] = "inserting"
    /\ Unwrap(metrics[1]).mark_price # None

(* both ladders of the coin are non-empty in the snapshot *)
TwoSided(snapshot, coin) ==
    /\ IsSome(snapshot)
    /\ coin \in DOMAIN Unwrap(snapshot)
    /\ ~EmptySide(snapshot, coin)

FreshReturnsEntry ==
    /\ pc["fresh"] = "reading"
    /\ pc'["fresh"] = "idle"
    /\ got'["fresh"].tag = "ok"

(* C13: whenever get_fresh_market_data returns an entry, the cache it was   *)
(* read from holds the map of a fetch that began after the call did: the    *)
(* call's own refresh or a later one, under every interleaving with the     *)
(* polling task.                                                            *)
C13_FreshReadIsFresh == [][FreshReturnsEntry => ~cache_stale]_vars

(* a fresh call whose own swap happened and was then overwritten by the     *)
(* polling task's older fetch, about to read the cache                      *)
C13_Witness ==
    /\ pc["fresh"] = "reading"
    /\ ret["fresh"] = "ok"
    /\ cache_stale
    /\ arg["fresh"] \in DOMAIN cached_data


(* no refresher is waiting for, or holding, the cache's write guard *)
NoSwapInProgress == \A r \in Refreshers : pc[r] \notin {"write_lock", "swap"}

(* C14: the write guard on the cache is held only for the map swap, after  *)
(* the fetch and the parse ended; a get_market_data call is granted the    *)
(* read guard whenever no swap is in progress, in particular while a fetch *)
(* is in flight or being parsed; and it returns the cache's current entry, *)
(* or None when the coin is absent or the cache was never populated.       *)
C14_ExclusiveOnlyForSwap ==
    /\ [](rw_writer => \E r \in Refreshers : pc[r] = "swap")
    /\ [](\A r \in Refreshers : pc[r] = "swap" =>
             /\ rw_writer
             /\ JsonAndParse[response[r]].ok
             /\ market_data_map[r] = JsonAndParse[response[r]].v)
    /\ [](NoSwapInProgress /\ pc["reader"] = "idle" => ENABLED ReadAcquire("reader"))
    /\ [](NoSwapInProgress /\ pc["fresh"] = "read_lock" => ENABLED ReadAcquire("fresh"))
    /\ [][pc["reader"] = "reading" /\ pc'["reader"] = "idle" =>
             got'["reader"] =
                 GotOk(IF arg["reader"] \in DOMAIN cached_data
                       THEN Some(cached_data[arg["reader"]]) ELSE None)]_vars

(* a read guard is held while the polling task's fetch is being parsed and *)
(* the cache already has the coin asked for                                *)
C14_Witness ==
    /\ pc["poller"] = "json"
    /\ pc["reader"] = "reading"
    /\ arg["reader"] \in DOMAIN cached_data


(* market m's sample is stalled: inside the order-book query or the insert, *)
(* or waiting for the mutex another sample holds                            *)
Stalled(m) == m_pc[m] \in {"ob_lock", "ob_query", "db_lock", "inserting"}

(* C15: a stalled sample never stalls the polling task: while any number of *)
(* samples sit in the order-book query, in the insert or at their locks,    *)
(* no read guard on the cache is held, the polling task's next step (tick,  *)
(* end of the request, parse, write guard, swap) is enabled, and no step of *)
(* the polling task touches the datastore mutex or the order-book mutex.    *)
C15_StalledSampleNeverStallsRefresh ==
    /\ []((\E m \in MarketIds : Stalled(m)) =>
            /\ rw_readers = 0
            /\ pc["poller"] = "idle" => ENABLED PollTick
            /\ pc["poller"] = "sending" => ENABLED SendDone("poller")
            /\ pc["poller"] = "json" => ENABLED JsonDone("poller")
            /\ pc["poller"] = "write_lock" => ENABLED WriteAcquire("poller")
            /\ pc["poller"] = "swap" => ENABLED Swap("poller"))
    /\ [][pc'["poller"] # pc["poller"] =>
             /\ db_mutex' = db_mutex /\ ob_mutex' = ob_mutex
             /\ m_pc' = m_pc]_vars

(* both samples are blocked on the datastore (one inside the insert, one at *)
(* the mutex) and the polling task holds the write guard for its swap       *)
C15_Witness ==
    /\ m_pc[1] = "inserting" /\ m_pc[2] = "db_lock"
    /\ pc["poller"] = "swap" /\ rw_writer


(* the fields merge_hyperliquid_data assigns *)
HyperliquidFields == FeedFields \cup {"impact_px_bid", "impact_px_ask"}

(* the fields in which record b differs from record a *)
Changed(a, b) == {f \in DOMAIN a : a[f] # b[f]}

C17_DepthMonotoneInBand ==
    (/\ depth_run.stage = "computed"
     /\ depth_run.bids # <<>> /\ depth_run.asks # <<>>
     /\ depth_run.mid_price > DecZero)
    => /\ depth_run.depths[1] <= depth_run.depths[3]
       /\ depth_run.depths[3] <= depth_run.depths[5]
       /\ depth_run.depths[2] <= depth_run.depths[4]
       /\ depth_run.depths[4] <= depth_run.depths[6]

(* depths that grow strictly from band to band: the bids from 5 to 10     *)
(* percent, the asks from 5 to 10 and from 10 to 25 percent               *)
C17_Witness ==
    /\ depth_run.stage = "computed"
    /\ depth_run.mid_price > DecZero
    /\ DecZero < depth_run.depths[1] /\ depth_run.depths[1] < depth_run.depths[3]
    /\ depth_run.depths[2] < depth_run.depths[4]
    /\ depth_run.depths[4] < depth_run.depths[6]


(* the sum of f over the index set I *)
RECURSIVE SumOver(_, _)
SumOver(I, f) ==
    IF I = {} THEN 0
    ELSE LET i == CHOOSE j \in I : TRUE IN f[i] + SumOver(I \ {i}, f)

(* the reference depths of band p percent: price*size summed over the bid  *)
(* levels with price >= mid*(1 - p/100), over the ask levels with          *)
(* price <= mid*(1 + p/100), whatever the order of the levels              *)
RefBidDepth(bids, mid, p) ==
    SumOver({i \in DOMAIN bids : bids[i][1] * 100 >= mid * (100 - p)},
            [i \in DOMAIN bids |-> (bids[i][1] * bids[i][2]) \div DecScale])
RefAskDepth(asks, mid, p) ==
    SumOver({i \in DOMAIN asks : asks[i][1] * 100 <= mid * (100 + p)},
            [i \in DOMAIN asks |-> (asks[i][1] * asks[i][2]) \div DecScale])

(* bids [(100,2),(99,3)], asks [(101,1),(102,4)], mid 100.5 *)
ExampleRun ==
    /\ depth_run.bids = <<Level(100, 2), Level(99, 3)>>
    /\ depth_run.asks = <<Level(101, 1), Level(102, 4)>>
    /\ depth_run.mid_price = DecFromInt(100) + DecScale \div 2

(* C18: for each band of 5, 10 and 25 percent calculate_liquidity_depth    *)
(* returns the reference sums, thresholds inclusive; giving the same       *)
(* levels in another order gives the same depths; and bids                 *)
(* [(100,2),(99,3)], asks [(101,1),(102,4)], mid 100.5 give bid5 = 497 and *)
(* ask5 = 509.                                                             *)
C18_DepthIsReferenceSum ==
    /\ [](depth_run.stage = "computed" =>
            depth_run.depths =
                <<RefBidDepth(depth_run.bids, depth_run.mid_price, 5),
                  RefAskDepth(depth_run.asks, depth_run.mid_price, 5),
                  RefBidDepth(depth_run.bids, depth_run.mid_price, 10),
                  RefAskDepth(depth_run.asks, depth_run.mid_price, 10),
                  RefBidDepth(depth_run.bids, depth_run.mid_price, 25),
                  RefAskDepth(depth_run.asks, depth_run.mid_price, 25)>>)
    /\ [](depth_run.stage = "computed" /\ ExampleRun =>
            /\ depth_run.depths[1] = DecFromInt(497)
            /\ depth_run.depths[2] = DecFromInt(509))
    /\ [][depth_run.stage = "computed" => depth_run'.depths = depth_run.depths]_vars

(* the depths of a book with an ask exactly on the 5 percent threshold     *)
(* (105 at mid 100), given in an order that is not best-price-first        *)
C18_Witness ==
    /\ depth_run.stage = "computed"
    /\ depth_run.mid_price = DecFromInt(100)
    /\ depth_run.asks = <<Level(105, 2), Level(101, 1)>>
    /\ depth_run.bids = <<Level(93, 2), Level(100, 2)>>
    /\ depth_run.depths[2] = DecFromInt(311)


NoLevels == depth_run.bids = <<>> /\ depth_run.asks = <<>>

(* C19: on an empty bid ladder and an empty ask ladder the function        *)
(* returns, for every mid price (zero and negative included), and all six  *)
(* depths are zero.                                                        *)
C19_EmptyLaddersGiveZero ==
    /\ [](depth_run.stage = "input" /\ NoLevels => ENABLED CalculateDepth)
    /\ [](depth_run.stage = "computed" /\ NoLevels =>
            depth_run.depths = <<DecZero, DecZero, DecZero, DecZero, DecZero, DecZero>>)

(* the depths of two empty ladders were calculated at a negative mid price *)
C19_Witness ==
    /\ depth_run.stage = "computed"
    /\ NoLevels
    /\ depth_run.mid_price < DecZero


(* a context object whose fields, where present, have the JSON type        *)
(* AssetContext declares: its only defects are missing values and strings  *)
(* that are not numbers                                                    *)
CtxTypesOk(j) ==
    /\ IsObj(j)
    /\ \A k \in RequiredCtxFields : HasKey(j, k) => IsStr(j.v[k])
    /\ OptStringOk(j, "midPx")
    /\ OptStringOk(j, "premium")
    /\ OptStringVecOk(j, "impactPxs")

(* the answers of the feed that are well-formed payloads up to the numeric *)
(* values of their contexts                                                *)
ValueDefectsOnly ==
    {i \in DOMAIN Responses :
        /\ Responses[i].kind = "http" /\ IsSuccess(Responses[i].status)
        /\ Responses[i].json
        /\ IsArr(Responses[i].value) /\ Len(Responses[i].value.v) = 2
        /\ IsSome(ExtractUniverse(Responses[i].value.v[1]))
        /\ IsSome(AsArray(Responses[i].value.v[2]))
        /\ \A n \in DOMAIN Unwrap(ExtractUniverse(Responses[i].value.v[1])) :
              n <= Len(Unwrap(AsArray(Responses[i].value.v[2]))) =>
                 /\ IsSome(FromValueAssetMeta(Unwrap(ExtractUniverse(Responses[i].value.v[1]))[n]))
                 /\ CtxTypesOk(Unwrap(AsArray(Responses[i].value.v[2]))[n])}

(* the markets such a payload pairs with a context *)
PairedCoins ==
    [i \in ValueDefectsOnly |->
        {Unwrap(FromValueAssetMeta(Unwrap(ExtractUniverse(Responses[i].value.v[1]))[n])).name :
            n \in {k \in DOMAIN Unwrap(ExtractUniverse(Responses[i].value.v[1])) :
                      k <= Len(Unwrap(AsArray(Responses[i].value.v[2])))}}]

(* C20: a refresh whose payload is well-formed up to missing or            *)
(* unparseable numeric values of a context is not aborted: the parse ends  *)
(* with a map that holds every paired market of the payload, and the call  *)
(* goes on to the swap.                                                    *)
C20_BadValueDoesNotAbort ==
    [][\A r \in Refreshers :
          (pc[r] = "json" /\ pc'[r] # "json" /\ response[r] \in ValueDefectsOnly) =>
              /\ pc'[r] = "write_lock"
              /\ DOMAIN market_data_map'[r] = PairedCoins[response[r]]]_vars

(* the polling task holds a payload whose second context lacks markPx,     *)
(* while the cache is populated: the parse fails and the call returns Err  *)
C20_Witness ==
    /\ pc["poller"] = "json"
    /\ response["poller"] \in ValueDefectsOnly
    /\ ~JsonAndParse[response["poller"]].ok
    /\ cached_data # EmptyMap


(* the positions at which the payload of answer i pairs a context with coin *)
PairedIdx(i, coin) ==
    {n \in DOMAIN Unwrap(ExtractUniverse(Responses[i].value.v[1])) :
        /\ n <= Len(Unwrap(AsArray(Responses[i].value.v[2])))
        /\ Unwrap(FromValueAssetMeta(
               Unwrap(ExtractUniverse(Responses[i].value.v[1]))[n])).name = coin}

(* the payload of answer i supplies no premium, no impact prices for coin *)
NoPremium(i, coin) ==
    \A n \in PairedIdx(i, coin) :
        OptString(Unwrap(AsArray(Responses[i].value.v[2]))[n], "premium") = None
NoImpactPxs(i, coin) ==
    \A n \in PairedIdx(i, coin) :
        OptStringVec(Unwrap(AsArray(Responses[i].value.v[2]))[n], "impactPxs") = None

(* market m's sample copies its cache entry into the record *)
MergesEntry(m) ==
    /\ m_pc[m] = "read_cache" /\ m_pc'[m] = "ob_lock"
    /\ TargetMarkets[m] \in DOMAIN cached_data

(* C21: premium and impact prices are optional in the record: when the     *)
(* payload the cache was filled from supplies no premium (no impact        *)
(* prices) for a market, the record built from that cache entry has        *)
(* premium (impact bid and ask) absent, not zero.                          *)
C21_AbsentPremiumStaysAbsent ==
    [][\A m \in MarketIds : MergesEntry(m) =>
          \A i \in feed :
             (JsonAndParse[i].ok /\ cached_data = JsonAndParse[i].v) =>
                /\ NoPremium(i, TargetMarkets[m]) =>
                      Unwrap(metrics'[m]).premium = None
                /\ NoImpactPxs(i, TargetMarkets[m]) =>
                      /\ Unwrap(metrics'[m]).impact_px_bid = None
                      /\ Unwrap(metrics'[m]).impact_px_ask = None]_vars

(* BTC's record, built from the entry of a payload without premium and     *)
(* impact prices, is in the insert with premium zero and no impact prices  *)
C21_Witness ==
    /\ m_pc[1] = "inserting"
    /\ \E i \in feed : /\ JsonAndParse[i].ok /\ cached_data = JsonAndParse[i].v
                        /\ NoPremium(i, BTC) /\ NoImpactPxs(i, BTC)
    /\ Unwrap(metrics[1]).premium = Some(DecZero)
    /\ Unwrap(metrics[1]).impact_px_bid = None


(* the universe list and the context list of answer i's payload *)
UniverseOf(i) == Unwrap(ExtractUniverse(Responses[i].value.v[1]))
ContextsOf(i) == Unwrap(AsArray(Responses[i].value.v[2]))

(* the positions both lists have *)
PairedPositions(i) ==
    {n \in DOMAIN UniverseOf(i) : n <= Len(ContextsOf(i))}

(* the entry position n of answer i's payload gives *)
EntryAt(i, n) ==
    MakeMarketData(Unwrap(FromValueAssetMeta(UniverseOf(i)[n])),
                   Unwrap(FromValueAssetContext(ContextsOf(i)[n])))

(* C22: a successful refresh pairs the universe list and the context list  *)
(* by position and stops at the shorter list: the parsed map, and the      *)
(* cache after the swap, holds for each position both lists have the       *)
(* entry of universe[n]'s name built from context[n], and no entry for a   *)
(* market at a position beyond the shorter list.                           *)
C22_PairedByPosition ==
    /\ [][\A r \in Refreshers :
             (pc[r] = "json" /\ pc'[r] = "write_lock") =>
                /\ DOMAIN market_data_map'[r] =
                      {EntryAt(response[r], n).coin : n \in PairedPositions(response[r])}
                /\ \A n \in PairedPositions(response[r]) :
                      market_data_map'[r][EntryAt(response[r], n).coin] =
                          EntryAt(response[r], n)
                /\ \A n \in (DOMAIN UniverseOf(response[r])) \ PairedPositions(response[r]) :
                      Unwrap(FromValueAssetMeta(UniverseOf(response[r])[n])).name
                          \notin DOMAIN market_data_map'[r]]_vars
    /\ [][\A r \in Refreshers :
             (pc[r] = "swap" /\ pc'[r] # "swap") =>
                cached_data' = market_data_map[r]]_vars

(* a refresher is at the swap with the map of a payload that lists more    *)
(* markets than contexts, another with more contexts than markets          *)
C22_Witness ==
    /\ pc["poller"] = "swap"
    /\ Len(UniverseOf(response["poller"])) > Len(ContextsOf(response["poller"]))
    /\ pc["fresh"] = "write_lock"
    /\ Len(UniverseOf(response["fresh"])) < Len(ContextsOf(response["fresh"]))


(* the markets whose sample is inside db.insert_metrics(&metrics).await *)
Inserting == {m \in MarketIds : m_pc[m] = "inserting"}

(* C23: across all sampling loops at most one insert is in flight: a       *)
(* sample is inside insert_metrics exactly while it holds the              *)
(* MetricsDatabase mutex, so the inserts of different markets are          *)
(* serialized, and the stored rows change only in the step in which the    *)
(* holder's insert returns.                                                *)
C23_OneInsertInFlight ==
    /\ [](Cardinality(Inserting) <= 1)
    /\ [](\A m \in MarketIds : m_pc[m] = "inserting" <=> db_mutex = m)
    /\ [][(\E t \in DOMAIN db_tables : db_tables'[t] # db_tables[t]) =>
             /\ db_mutex \in MarketIds
             /\ m_pc[db_mutex] = "inserting" /\ m_pc'[db_mutex] = "idle"
             /\ db_mutex' = 0]_vars

(* ETH's sample is inside the insert while BTC's, which stored a row       *)
(* before, has its record ready and waits for the mutex                    *)
C23_Witness ==
    /\ m_pc[2] = "inserting" /\ db_mutex = 2
    /\ m_pc[1] = "db_lock" /\ IsSome(metrics[1])
    /\ TableName(BTC) \in DOMAIN db_tables /\ db_tables[TableName(BTC)] # {}


(* C24: every insert a sampling loop issues targets a provisioned table:   *)
(* the loops exist only once every configured symbol's table is in the     *)
(* provisioned set, which never shrinks; the record in the insert carries  *)
(* the loop's configured symbol; the table name insert_metrics derives     *)
(* from it is the name ensure_market_table derived, is in the provisioned  *)
(* set and exists in the datastore; and no insert fails for a missing      *)
(* table.                                                                  *)
C24_InsertTargetsProvisionedTable ==
    /\ []((\E m \in MarketIds : m_pc[m] # "unspawned") =>
            TargetTables \subseteq created_tables)
    /\ [](\A m \in MarketIds : m_pc[m] = "inserting" =>
            /\ IsSome(metrics[m])
            /\ Unwrap(metrics[m]).coin = TargetMarkets[m]
            /\ InsertTableName(Unwrap(metrics[m]).coin) = TableName(TargetMarkets[m])
            /\ InsertTableName(Unwrap(metrics[m]).coin) \in created_tables
            /\ InsertTableName(Unwrap(metrics[m]).coin) \in DOMAIN db_tables)
    /\ [][/\ created_tables \subseteq created_tables'
          /\ \A m \in MarketIds : m_ret'[m] # "db error: no table"]_vars

(* BTC's record is in the insert after ETH's loop stored a row in its table *)
C24_Witness ==
    /\ m_pc[1] = "inserting"
    /\ Unwrap(metrics[1]).coin = BTC
    /\ m_ret[2] = "ok"
    /\ db_tables[TableName(ETH)] # {}


(* C25: a failed ensure_market_table leaves the provisioned set and the    *)
(* datastore unchanged; a table name is in the set only if its DDL batch   *)
(* completed; and a call for a symbol whose name is not in the set takes   *)
(* a connection and attempts the DDL again, whatever earlier calls         *)
(* returned.                                                               *)
C25_FailedEnsureNotRecorded ==
    /\ [](\A t \in created_tables : ddl_count[t] >= 1 /\ t \in DOMAIN db_tables)
    /\ [][\A c \in DbSymbols :
             (EnsureCall(c) /\ ensure_ret' = "err") =>
                /\ TableName(c) \notin created_tables
                /\ UNCHANGED <<created_tables, db_tables, ddl_count>>]_vars
    /\ [][\A c \in DbSymbols :
             (EnsureCall(c) /\ TableName(c) \notin created_tables) =>
                /\ ensure_ops' # <<>> /\ ensure_ops'[1] = "get"
                /\ ensure_ret' = "ok" =>
                      /\ ensure_ops' = <<"get", "batch_execute">>
                      /\ created_tables' = created_tables \cup {TableName(c)}
                      /\ ddl_count'[TableName(c)] = ddl_count[TableName(c)] + 1]_vars

(* the DDL batch of BTC's table failed after ETH's table was provisioned   *)
C25_Witness ==
    /\ created_tables = {TableName(ETH)}
    /\ ensure_ret = "err"
    /\ ensure_ops = <<"get", "batch_execute">>

============================================================================
